---- MODULE Spec2Model ----
(***************************************************************************)
(* Model of the browser payment SDK MMPaySDK (src/src/index.ts): the modal *)
(* lifecycle, the poll timer and the completion callback of one SDK        *)
(* instance on one page, together with the window globals and the gateway  *)
(* requests it has in flight.  JavaScript runs one handler at a time, so   *)
(* every action below is one macrotask: a user call, a hook invoked from   *)
(* the page, a timer tick, or the continuation that runs when a gateway    *)
(* response arrives.                                                       *)
(*                                                                         *)
(* Beside the run of that instance (Spec, LiveSpec, ThrowSpec for a page   *)
(* whose callbacks throw, and EnvSpec and IntervalSpec for instances       *)
(* constructed with options) the module models                             *)
(* construction of the three SDK classes (CtorSpec), a direct              *)
(* createPaymentRequest call (ApiSpec), the payment flow of                *)
(* MMQRMerchantBrowserSDK of src/unnamed/part_001 (MerchantSpec) and the   *)
(* payment flow of the container MMPaySDK of src/unnamed/part_002          *)
(* (ContainerSpec).                                                        *)
(***************************************************************************)
EXTENDS Naturals, Sequences, FiniteSets, Bags, TLC

\* Number of showPaymentModal invocations (user calls and re-renders) explored.
MaxCalls == 2
\* Number of status requests issued in one run of the model, all sessions together.
MaxPolls == 2

Undefined == 0      \* JavaScript undefined / null for ids
Calls == 1..MaxCalls

VARIABLES
  pollIntervalId,        \* this.pollIntervalId: Undefined or a timer id
  onCompleteCallback,    \* this.onCompleteCallback: Undefined or a callback id
  overlayElement,        \* this.overlayElement: Undefined or a node id
  pendingApiResponse,    \* this.pendingApiResponse: Undefined or the call whose create response is kept
  pendingPaymentPayload, \* this.pendingPaymentPayload: Undefined or a payload id
  tokenKey,              \* this.tokenKey: Undefined or a token id
  timers,                \* window: ids of the interval timers that are live
  dom,                   \* document.body: the overlay nodes attached
  attachedPeak,          \* the largest number of overlay nodes attached at one moment so far
  bodyOverflow,          \* document.body.style.overflow
  hookClose,             \* window.MMPayCloseModal: "undef", "normal" or "terminal" (isTerminal captured)
  hookReRender,          \* window.MMPayReRenderModal is defined
  hookDownload,          \* window.MMPayDownloadQR: Undefined or the payload id it captured
  nCalls,                \* showPaymentModal invocations so far
  pc,                    \* position of each showPaymentModal invocation
  cbOf,                  \* onComplete argument of each invocation
  payloadOf,             \* payload argument of each invocation
  sent,                  \* requests issued by each invocation, per operation
  pollReqs,              \* status requests in flight (a bag)
  completeCount,         \* onComplete invocations made by each invocation's checkStatus
  lastComplete,          \* the onComplete invocation made by the handler that ran last, if any
  lastObserved,          \* the poll response whose delivery caused that invocation
  lastInit,              \* the initiation answer the handler that ran last received, if any
  consoleError,          \* what the checkStatus that ran last passed to console.error, if anything
  activeAtCall,          \* the poll session that was live when each invocation was made,
                         \* kept while that session has a status request in flight
  cancelled,             \* poll sessions the user has cancelled (forced close of a
                         \* non-terminal view), kept while they have a request in flight
  options,               \* the options argument the instance was constructed with
  environment,           \* this.environment
  POLL_INTERVAL_MS,      \* this.POLL_INTERVAL_MS
  wire,                  \* fetch: the operation and endpoint of every request sent so far
  period,                \* window.setInterval: the period given for each invocation's timer
  built,                 \* the last new <class>(publishableKey, options) and its outcome
  api,                   \* the last direct createPaymentRequest call: what the gateway
                         \* answered and how the returned promise settled
  merchant,              \* an MMQRMerchantBrowserSDK instance with its page: environment,
                         \* position, container content and timer of each showPaymentModal
                         \* invocation, window._sandboxPollCount, requests in flight
  containerSdk           \* an MMPaySDK instance of src/unnamed/part_002 with its page:
                         \* position and timer of each showPaymentModal invocation, content
                         \* of the container element, requests in flight

vars == <<pollIntervalId, onCompleteCallback, overlayElement, pendingApiResponse,
          pendingPaymentPayload, tokenKey, timers, dom, attachedPeak, bodyOverflow,
          hookClose, hookReRender, hookDownload, nCalls, pc, cbOf, payloadOf, sent, pollReqs,
          completeCount, lastComplete, lastObserved, lastInit, consoleError,
          activeAtCall, cancelled, options, environment, POLL_INTERVAL_MS, wire, period,
          built, api, merchant, containerSdk>>

\* The variables of the MMPaySDK instance, its window and its document.
instanceVars ==
  <<pollIntervalId, onCompleteCallback, overlayElement, pendingApiResponse,
    pendingPaymentPayload, tokenKey, timers, dom, attachedPeak, bodyOverflow,
    hookClose, hookReRender, hookDownload, nCalls, pc, cbOf, payloadOf, sent, pollReqs,
    completeCount, lastComplete, lastObserved, lastInit, consoleError,
    activeAtCall, cancelled, options, environment, POLL_INTERVAL_MS, wire, period>>

---------------------------------------------------------------------------
\* Construction.  An optional argument or option is <<>> when it is omitted and
\* <<v>> when the caller supplies v; an instance field is <<>> until it is assigned.

Omitted == <<>>

\* JavaScript truthiness of an optional string and of an optional number.
FalsyString(x) == x = Omitted \/ x[1] = ""
FalsyNumber(x) == x = Omitted \/ x[1] = 0

\* x || d
OrString(x, d) == IF FalsyString(x) THEN d ELSE x[1]
OrNumber(x, d) == IF FalsyNumber(x) THEN d ELSE x[1]

DefaultPollInterval == 3000

\* The three SDK classes: MMPaySDK of src/index.ts, MMQRMerchantBrowserSDK and the
\* container MMPaySDK.
Variants == {"MMPaySDK", "MMQRMerchantBrowserSDK", "MMPaySDKContainer"}

\* MMQRMerchantBrowserSDK.ENV_URLS
ENV_URLS(env) ==
  IF env = "sandbox" THEN "https://sandbox.api.yourgateway.com/v1"
                     ELSE "https://api.yourgateway.com/v1"

\* A constructor without the publishable-key test.
NewUnchecked(variant, publishableKey, opts) ==
  LET env == OrString(opts.environment, "production") IN
  [threw |-> FALSE,
   publishableKey |-> publishableKey,
   environment |-> <<env>>,
   baseUrl |-> IF variant = "MMQRMerchantBrowserSDK"
                 THEN (IF ~FalsyString(opts.baseUrl) THEN opts.baseUrl ELSE <<ENV_URLS(env)>>)
                 ELSE <<OrString(opts.baseUrl, "https://api.mm-pay.com")>>,
   POLL_INTERVAL_MS |-> <<OrNumber(opts.pollInterval, DefaultPollInterval)>>]

\* The result of new <variant>(publishableKey, options): threw, and the fields the
\* constructor body assigned.
New(variant, publishableKey, opts) ==
  IF FalsyString(publishableKey)
    THEN [threw |-> TRUE, publishableKey |-> <<>>, environment |-> <<>>,
          baseUrl |-> <<>>, POLL_INTERVAL_MS |-> <<>>]
    ELSE LET env == OrString(opts.environment, "production") IN
         [threw |-> FALSE,
          publishableKey |-> publishableKey,
          environment |-> <<env>>,
          baseUrl |-> IF variant = "MMQRMerchantBrowserSDK"
                        THEN (IF ~FalsyString(opts.baseUrl)
                                THEN opts.baseUrl ELSE <<ENV_URLS(env)>>)
                        ELSE <<OrString(opts.baseUrl, "https://api.mm-pay.com")>>,
          POLL_INTERVAL_MS |-> <<OrNumber(opts.pollInterval, DefaultPollInterval)>>]

\* Endpoints whose status polling ignores the environment.
EndpointPollFixed(env, op) ==
  CASE op = "token"  -> IF env = "sandbox" THEN "/xpayments/sandbox-token-request"
                                           ELSE "/xpayments/production-token-request"
    [] op = "create" -> IF env = "sandbox" THEN "/xpayments/sandbox-payment-create"
                                           ELSE "/xpayments/production-payment-create"
    [] op = "poll"   -> "/xpayments/production-payment-polling"

\* The endpoint an operation of MMPaySDK posts to.
Endpoint(env, op) ==
  CASE op = "token"  -> IF env = "sandbox" THEN "/xpayments/sandbox-token-request"
                                           ELSE "/xpayments/production-token-request"
    [] op = "create" -> IF env = "sandbox" THEN "/xpayments/sandbox-payment-create"
                                           ELSE "/xpayments/production-payment-create"
    [] op = "poll"   -> IF env = "sandbox" THEN "/xpayments/sandbox-payment-polling"
                                           ELSE "/xpayments/production-payment-polling"

---------------------------------------------------------------------------
\* Status strings, as sequences of characters.
PENDING   == <<"P","E","N","D","I","N","G">>
SUCCESS   == <<"S","U","C","C","E","S","S">>
FAILED    == <<"F","A","I","L","E","D">>
EXPIRED   == <<"E","X","P","I","R","E","D">>
COMPLETED == <<"C","O","M","P","L","E","T","E","D">>
Absent    == <<>>

\* The status values a poll response may carry (IPollingResponse.status, any case, or none).
RawStatuses ==
  { PENDING, SUCCESS, FAILED, EXPIRED, COMPLETED, Absent,
    <<"s","u","c","c","e","s","s">>, <<"p","e","n","d","i","n","g">> }

\* String.prototype.toUpperCase on the letters that occur in status values.
UpperChar(c) ==
  CASE c = "a" -> "A" [] c = "c" -> "C" [] c = "d" -> "D" [] c = "e" -> "E"
    [] c = "g" -> "G" [] c = "i" -> "I" [] c = "l" -> "L" [] c = "n" -> "N"
    [] c = "p" -> "P" [] c = "s" -> "S" [] c = "u" -> "U" [] OTHER -> c

ToUpperCase(s) == [k \in DOMAIN s |-> UpperChar(s[k])]

\* (response.status || '').toUpperCase()
StatusOf(response) == ToUpperCase(response.status)

\* A terminal test that also lets PENDING through.
IsTerminalStatusLoose(status) == status \in {SUCCESS, FAILED, EXPIRED, PENDING}

\* status === 'SUCCESS' || status === 'FAILED' || status === 'EXPIRED'
IsTerminalStatus(status) == status \in {SUCCESS, FAILED, EXPIRED}

\* const success = status === 'SUCCESS'
SuccessFlag(status) == status = SUCCESS

NoResponse == [status |-> Absent, inv |-> 0]
NoCall ==
  [inv |-> 0, cb |-> 0, success |-> FALSE, transaction |-> NoResponse,
   timerLive |-> FALSE, terminalShown |-> FALSE]

---------------------------------------------------------------------------
NoInit == [inv |-> 0, outcome |-> "none"]

\* The whole state as one record, so that a handler is a function from state to state.
\* lastComplete, lastObserved, lastInit and consoleError describe one handler run: each
\* handler starts with them empty.
State ==
  [pollIntervalId |-> pollIntervalId, onCompleteCallback |-> onCompleteCallback,
   overlayElement |-> overlayElement, pendingApiResponse |-> pendingApiResponse,
   pendingPaymentPayload |-> pendingPaymentPayload, tokenKey |-> tokenKey,
   timers |-> timers, dom |-> dom, attachedPeak |-> attachedPeak,
   bodyOverflow |-> bodyOverflow,
   hookClose |-> hookClose, hookReRender |-> hookReRender, hookDownload |-> hookDownload,
   nCalls |-> nCalls, pc |-> pc, cbOf |-> cbOf, payloadOf |-> payloadOf, sent |-> sent,
   pollReqs |-> pollReqs, completeCount |-> completeCount, lastComplete |-> NoCall,
   lastObserved |-> NoResponse, lastInit |-> NoInit, consoleError |-> "",
   activeAtCall |-> activeAtCall, cancelled |-> cancelled,
   environment |-> environment, POLL_INTERVAL_MS |-> POLL_INTERVAL_MS,
   wire |-> wire, period |-> period]

\* Invocation i has a status request in flight.
InFlight(s, i) == \E r \in BagToSet(s.pollReqs) : r.inv = i

Apply(s) ==
  /\ pollIntervalId' = s.pollIntervalId
  /\ onCompleteCallback' = s.onCompleteCallback
  /\ overlayElement' = s.overlayElement
  /\ pendingApiResponse' = s.pendingApiResponse
  /\ pendingPaymentPayload' = s.pendingPaymentPayload
  /\ tokenKey' = s.tokenKey
  /\ timers' = s.timers
  /\ dom' = s.dom
  /\ attachedPeak' = s.attachedPeak
  /\ bodyOverflow' = s.bodyOverflow
  /\ hookClose' = s.hookClose
  /\ hookReRender' = s.hookReRender
  /\ hookDownload' = s.hookDownload
  /\ nCalls' = s.nCalls
  /\ pc' = s.pc
  /\ cbOf' = s.cbOf
  /\ payloadOf' = s.payloadOf
  /\ sent' = s.sent
  /\ pollReqs' = s.pollReqs
  /\ completeCount' = s.completeCount
  /\ lastComplete' = s.lastComplete
  /\ lastObserved' = s.lastObserved
  /\ lastInit' = s.lastInit
  /\ consoleError' = s.consoleError
  /\ activeAtCall' = [b \in Calls |-> IF InFlight(s, s.activeAtCall[b])
                                        THEN s.activeAtCall[b] ELSE Undefined]
  /\ cancelled' = {i \in s.cancelled : InFlight(s, i)}
  /\ wire' = s.wire
  /\ period' = s.period
  /\ UNCHANGED <<options, environment, POLL_INTERVAL_MS, built, api, merchant, containerSdk>>

\* The X-MMPay-Browser-Authorization header _callApi attaches: the instance's tokenKey
\* when it is set, none otherwise.
AuthorizationHeader(s) == IF s.tokenKey # Undefined THEN <<s.tokenKey>> ELSE <<>>

\* _callApi up to its await: fetch posts the request of an operation to its endpoint.
CallApi(s, op) ==
  [s EXCEPT !.wire = @ \cup {[op |-> op, endpoint |-> Endpoint(s.environment, op)]}]

\* window.clearInterval(id): clearing undefined or a dead id does nothing.
ClearInterval(s, id) == [s EXCEPT !.timers = @ \ {id}]

\* A node id for document.createElement: any id not attached and not referenced.
FreshNode(s) ==
  CHOOSE n \in 1..(Cardinality(s.dom) + 2) :
    /\ n # s.overlayElement
    /\ \A o \in s.dom : o.id # n

Attached(s, n) == \E o \in s.dom : o.id = n

\* A cleanup that forgets the timer handle without clearing the timer.
CleanupModalForgetsTimer(s, restoreBodyScroll) ==
  LET s1 == [s EXCEPT !.pollIntervalId = Undefined]
      s2 == IF s1.overlayElement # Undefined /\ Attached(s1, s1.overlayElement)
              THEN [s1 EXCEPT !.dom = {o \in @ : o.id # s1.overlayElement},
                              !.overlayElement = Undefined]
              ELSE s1
      s3 == IF restoreBodyScroll THEN [s2 EXCEPT !.bodyOverflow = ""] ELSE s2
  IN  [s3 EXCEPT !.hookClose = "undef", !.hookReRender = FALSE]

\* A cleanup that never restores page scrolling.
CleanupModalKeepsScroll(s, restoreBodyScroll) ==
  LET s1 == IF s.pollIntervalId # Undefined
              THEN [ClearInterval(s, s.pollIntervalId) EXCEPT !.pollIntervalId = Undefined]
              ELSE s
      s2 == IF s1.overlayElement # Undefined /\ Attached(s1, s1.overlayElement)
              THEN [s1 EXCEPT !.dom = {o \in @ : o.id # s1.overlayElement},
                              !.overlayElement = Undefined]
              ELSE s1
  IN  [s2 EXCEPT !.hookClose = "undef", !.hookReRender = FALSE]

\* A cleanup that drops its reference to the overlay and leaves the node attached.
CleanupModalKeepsOverlay(s, restoreBodyScroll) ==
  LET s1 == IF s.pollIntervalId # Undefined
              THEN [ClearInterval(s, s.pollIntervalId) EXCEPT !.pollIntervalId = Undefined]
              ELSE s
      s2 == [s1 EXCEPT !.overlayElement = Undefined]
      s3 == IF restoreBodyScroll THEN [s2 EXCEPT !.bodyOverflow = ""] ELSE s2
  IN  [s3 EXCEPT !.hookClose = "undef", !.hookReRender = FALSE]

\* A cleanup that flips page scrolling instead of restoring it.
CleanupModalTogglesScroll(s, restoreBodyScroll) ==
  LET s1 == IF s.pollIntervalId # Undefined
              THEN [ClearInterval(s, s.pollIntervalId) EXCEPT !.pollIntervalId = Undefined]
              ELSE s
      s2 == IF s1.overlayElement # Undefined /\ Attached(s1, s1.overlayElement)
              THEN [s1 EXCEPT !.dom = {o \in @ : o.id # s1.overlayElement},
                              !.overlayElement = Undefined]
              ELSE s1
      s3 == IF restoreBodyScroll
              THEN [s2 EXCEPT !.bodyOverflow = IF @ = "" THEN "hidden" ELSE ""]
              ELSE s2
  IN  [s3 EXCEPT !.hookClose = "undef", !.hookReRender = FALSE]

\* _cleanupModal(restoreBodyScroll)
CleanupModal(s, restoreBodyScroll) ==
  LET s1 == IF s.pollIntervalId # Undefined
              THEN [ClearInterval(s, s.pollIntervalId) EXCEPT !.pollIntervalId = Undefined]
              ELSE s
      s2 == IF s1.overlayElement # Undefined /\ Attached(s1, s1.overlayElement)
              THEN [s1 EXCEPT !.dom = {o \in @ : o.id # s1.overlayElement},
                              !.overlayElement = Undefined]
              ELSE s1
      s3 == IF restoreBodyScroll THEN [s2 EXCEPT !.bodyOverflow = ""] ELSE s2
  IN  [s3 EXCEPT !.hookClose = "undef", !.hookReRender = FALSE]

\* _createAndRenderModal(contentHtml, isTerminal); the content is the view, the
\* invocation it was rendered for (for the confirmation view: the poll session it
\* interrupts, if any) and, for the terminal view, the status shown.
CreateAndRenderModal(s, view, owner, status, isTerminal) ==
  LET s1 == CleanupModal(s, FALSE)
      n  == FreshNode(s1)
  IN  [s1 EXCEPT !.dom = @ \cup {[id |-> n, view |-> view, owner |-> owner, status |-> status]},
                 !.attachedPeak = IF Cardinality(s1.dom) + 1 > @
                                    THEN Cardinality(s1.dom) + 1 ELSE @,
                 !.overlayElement = n,
                 !.hookClose = IF isTerminal THEN "terminal" ELSE "normal",
                 !.hookReRender = TRUE,
                 !.bodyOverflow = "hidden"]

\* _showTerminalMessage(orderId, status, message)
ShowTerminalMessage(s, owner, status) ==
  CreateAndRenderModal(CleanupModal(s, TRUE), "terminal", owner, status, TRUE)

\* A confirmation view that replaces the overlay and leaves the poll timer running.
ShowCancelConfirmationKeepsTimer(s) ==
  [s EXCEPT !.dom = {[id |-> FreshNode(s), view |-> "confirm",
                      owner |-> s.pollIntervalId, status |-> Absent]},
            !.overlayElement = FreshNode(s),
            !.hookClose = "normal",
            !.hookReRender = TRUE,
            !.bodyOverflow = "hidden"]

\* _showCancelConfirmationModal()
ShowCancelConfirmationModal(s) ==
  LET s1 == IF s.pollIntervalId # Undefined
              THEN [ClearInterval(s, s.pollIntervalId) EXCEPT !.pollIntervalId = Undefined]
              ELSE s
  IN  CreateAndRenderModal(CleanupModal(s1, FALSE), "confirm", s.pollIntervalId, Absent, FALSE)

\* _renderQrModalContent(apiResponse, payload, merchantName)
RenderQrModalContent(s, i) ==
  LET s1 == [s EXCEPT !.hookDownload = s.payloadOf[i]]
  IN  CreateAndRenderModal(CleanupModal(s1, FALSE), "qr", i, Absent, FALSE)

\* checkStatus up to its await: _callApi sends the status request of invocation i,
\* whose answer is awaited.
CheckStatusSend(s, i) ==
  [CallApi(s, "poll") EXCEPT !.pollReqs = @ (+) SetToBag({[inv |-> i]}),
            !.sent[i].poll = @ + 1]

\* A poll start that makes the immediate check and schedules no repeating timer.
StartPollingNoInterval(s, i) ==
  LET s1 == IF s.pollIntervalId # Undefined THEN ClearInterval(s, s.pollIntervalId) ELSE s
      s2 == CheckStatusSend(s1, i)
  IN  [s2 EXCEPT !.pollIntervalId = Undefined, !.pc[i] = "started"]

\* _startPolling(payload, onComplete) of invocation i; the timer it creates is named i.
StartPolling(s, i) ==
  LET s1 == IF s.pollIntervalId # Undefined THEN ClearInterval(s, s.pollIntervalId) ELSE s
      s2 == CheckStatusSend(s1, i)
  IN  [s2 EXCEPT !.timers = @ \cup {i}, !.pollIntervalId = i, !.pc[i] = "started",
                 !.period[i] = <<s.POLL_INTERVAL_MS>>]

\* The overlay the instance references is attached and shows the terminal view of
\* invocation i.
TerminalShownFor(s, i) ==
  \E o \in s.dom : o.id = s.overlayElement /\ o.view = "terminal" /\ o.owner = i

\* A checkStatus that invokes onComplete first and then stops the timer and mounts the
\* terminal view.
CheckStatusReceiveCallsFirst(s, i, response) ==
  LET status == StatusOf(response) IN
  IF IsTerminalStatus(status)
    THEN LET s1 == [ClearInterval(s, s.pollIntervalId) EXCEPT !.pollIntervalId = Undefined]
             s2 == ShowTerminalMessage(s1, i, status)
         IN  [s2 EXCEPT !.tokenKey = Undefined,
                        !.completeCount[i] = @ + 1,
                        !.lastComplete = [inv |-> i, cb |-> s.cbOf[i],
                                          success |-> SuccessFlag(status),
                                          transaction |-> response,
                                          timerLive |-> s.timers # {},
                                          terminalShown |-> TerminalShownFor(s, i)]]
    ELSE s

\* checkStatus after its await, for a response the gateway answered with.  The
\* onComplete invocation is recorded with what is true at the moment of the call:
\* whether a poll timer is live and whether the terminal view is mounted.
CheckStatusReceive(s, i, response) ==
  LET status == StatusOf(response) IN
  IF IsTerminalStatus(status)
    THEN LET s1 == [ClearInterval(s, s.pollIntervalId) EXCEPT !.pollIntervalId = Undefined]
             s2 == ShowTerminalMessage(s1, i, status)
         IN  [s2 EXCEPT !.tokenKey = Undefined,
                        !.completeCount[i] = @ + 1,
                        !.lastComplete = [inv |-> i, cb |-> s.cbOf[i],
                                          success |-> SuccessFlag(status),
                                          transaction |-> response,
                                          timerLive |-> s2.timers # {},
                                          terminalShown |-> TerminalShownFor(s2, i)]]
    ELSE s

\* A catch block that also stops polling.
CheckStatusCatchStops(s, i) ==
  [ClearInterval(s, s.pollIntervalId)
     EXCEPT !.pollIntervalId = Undefined, !.consoleError = "Polling error:"]

\* checkStatus after its await, for a request of invocation i that failed (transport
\* error, non-2xx response, unparsable body): the catch block logs.
CheckStatusCatch(s, i) == [s EXCEPT !.consoleError = "Polling error:"]

\* checkStatus after its await when the page's onComplete throws: the call is the last
\* statement of the try block before return, after the timer was cleared and the
\* terminal view mounted, and the exception lands in the catch block, which logs it.
CheckStatusReceiveThrows(s, i, response) ==
  LET s1 == CheckStatusReceive(s, i, response) IN
  IF s1.lastComplete.inv # Undefined THEN CheckStatusCatch(s1, i) ELSE s1

\* showPaymentModal(payload, onComplete) up to its first await: the progress view
\* and the token request.
ShowPaymentModal(s, payload, onComplete) ==
  LET n  == s.nCalls + 1
      s1 == CallApi(CreateAndRenderModal(s, "progress", n, Absent, FALSE), "token")
  IN  [s1 EXCEPT !.onCompleteCallback = onComplete,
                 !.nCalls = n,
                 !.pc[n] = "token",
                 !.cbOf[n] = onComplete,
                 !.payloadOf[n] = payload,
                 !.sent[n].token = @ + 1]

\* showPaymentModal after createTokenRequest settled.
AfterToken(s, i, ok) ==
  IF ok
    THEN [CallApi(s, "create")
            EXCEPT !.tokenKey = i, !.pc[i] = "create", !.sent[i].create = @ + 1]
    ELSE [ShowTerminalMessage([s EXCEPT !.tokenKey = Undefined], i, FAILED)
            EXCEPT !.pc[i] = "initFailed"]

CreateOutcomes == {"ok", "noqr", "fail", "badAmount"}

\* An initiation that does not test the create response for qr and transactionRefId.
AfterCreateUnchecked(s, i, outcome) ==
  CASE outcome \in {"ok", "noqr"} ->
         StartPolling(
           RenderQrModalContent(
             [s EXCEPT !.pendingApiResponse = i, !.pendingPaymentPayload = s.payloadOf[i]], i),
           i)
    [] OTHER ->
         [ShowTerminalMessage([s EXCEPT !.tokenKey = Undefined], i, FAILED)
            EXCEPT !.pc[i] = "initFailed"]

\* showPaymentModal after createPaymentRequest settled: "ok" a response with qr and
\* transactionRefId, "noqr" one lacking either, "fail" a rejected request, and
\* "badAmount" a response whose amount is missing, on which toFixed throws.
AfterCreate(s, i, outcome) ==
  CASE outcome = "ok" ->
         StartPolling(
           RenderQrModalContent(
             [s EXCEPT !.pendingApiResponse = i, !.pendingPaymentPayload = s.payloadOf[i]], i),
           i)
    [] outcome = "noqr" ->
         [ShowTerminalMessage(s, i, FAILED) EXCEPT !.pc[i] = "initFailed"]
    [] outcome = "fail" ->
         [ShowTerminalMessage([s EXCEPT !.tokenKey = Undefined], i, FAILED)
            EXCEPT !.pc[i] = "initFailed"]
    [] outcome = "badAmount" ->
         [ShowTerminalMessage(
            [s EXCEPT !.pendingApiResponse = i, !.pendingPaymentPayload = s.payloadOf[i],
                      !.tokenKey = Undefined], i, FAILED)
            EXCEPT !.pc[i] = "initFailed"]

\* A re-render that only tears the modal down.
ReRenderOnlyCloses(s) == CleanupModal(s, TRUE)

\* _reRenderPendingModalInstance()
ReRenderPendingModalInstance(s) ==
  IF s.pendingApiResponse # Undefined /\ s.pendingPaymentPayload # Undefined
       /\ s.onCompleteCallback # Undefined
    THEN ShowPaymentModal(CleanupModal(s, TRUE), s.pendingPaymentPayload, s.onCompleteCallback)
    ELSE CleanupModal(s, TRUE)

\* A close hook that ignores the isTerminal flag it captured.
MMPayCloseModalAsksAgain(s, forceClose) ==
  IF forceClose
    THEN CleanupModal(s, TRUE)
    ELSE ShowCancelConfirmationModal(s)

\* window.MMPayCloseModal(forceClose), the closure installed by _createAndRenderModal.
MMPayCloseModal(s, forceClose) ==
  IF s.hookClose = "terminal" \/ forceClose
    THEN CleanupModal(s, TRUE)
    ELSE ShowCancelConfirmationModal(s)

---------------------------------------------------------------------------
\* The gateway's answer to one request: fetch rejects (transport failure), or it
\* resolves with a response that has a status, a status text and a body; json is
\* <<v>> when the body parses to v and <<>> when it does not parse.
Bodies ==
  {[text |-> "{qr,transactionRefId}", json |-> <<"payment">>],
   [text |-> "{error:down}",          json |-> <<"error down">>],
   [text |-> "<html>Bad Gateway",     json |-> <<>>],
   [text |-> "",                      json |-> <<>>]}
HttpStatuses == {200, 201, 299, 300, 400, 404, 500, 503}
HttpAnswers ==
  [transport : {"ok"}, status : HttpStatuses,
   statusText : {"", "Internal Server Error"}, body : Bodies]
    \cup {[transport |-> "failed", status |-> 0, statusText |-> "",
           body |-> [text |-> "", json |-> <<>>]]}

\* Response.ok
ResponseOk(answer) == answer.status >= 200 /\ answer.status <= 299

NoError == [name |-> "", status |-> 0, statusText |-> "", details |-> ""]

\* A _callApi that parses the body whatever the status.
CallApiSettleAnyStatus(answer) ==
  IF answer.transport = "failed"
    THEN [settled |-> "rejected", value |-> <<>>,
          error |-> [NoError EXCEPT !.name = "TypeError: Failed to fetch"]]
  ELSE IF answer.body.json = <<>>
    THEN [settled |-> "rejected", value |-> <<>>,
          error |-> [NoError EXCEPT !.name = "SyntaxError"]]
  ELSE [settled |-> "fulfilled", value |-> answer.body.json, error |-> NoError]

\* _callApi after its await: how the promise it returned settles for an answer.  The
\* message of the error it throws is made of the status, the status text and the body.
CallApiSettle(answer) ==
  IF answer.transport = "failed"
    THEN [settled |-> "rejected", value |-> <<>>,
          error |-> [NoError EXCEPT !.name = "TypeError: Failed to fetch"]]
  ELSE IF ~ResponseOk(answer)
    THEN [settled |-> "rejected", value |-> <<>>,
          error |-> [name |-> "API error", status |-> answer.status,
                     statusText |-> answer.statusText, details |-> answer.body.text]]
  ELSE IF answer.body.json = <<>>
    THEN [settled |-> "rejected", value |-> <<>>,
          error |-> [NoError EXCEPT !.name = "SyntaxError"]]
  ELSE [settled |-> "fulfilled", value |-> answer.body.json, error |-> NoError]

\* createPaymentRequest(payload): the endpoint it posts to and how its promise settles;
\* the catch block logs and rethrows.
CreatePaymentRequest(env, answer) ==
  [endpoint |-> Endpoint(env, "create"), promise |-> CallApiSettle(answer)]

NoBuild ==
  [variant |-> "", publishableKey |-> Omitted,
   options |-> [pollInterval |-> Omitted, environment |-> Omitted, baseUrl |-> Omitted],
   result |-> [threw |-> FALSE, publishableKey |-> <<>>, environment |-> <<>>,
               baseUrl |-> <<>>, POLL_INTERVAL_MS |-> <<>>]]

NoApiCall ==
  [called |-> FALSE,
   answer |-> [transport |-> "failed", status |-> 0, statusText |-> "",
               body |-> [text |-> "", json |-> <<>>]],
   endpoint |-> "",
   promise |-> [settled |-> "", value |-> <<>>, error |-> NoError]]

---------------------------------------------------------------------------
\* MMQRMerchantBrowserSDK (src/unnamed/part_001) as functions on the record merchant.

SandboxPollLimit == 3

NoMerchantCall == [inv |-> 0, success |-> FALSE, phase |-> ""]

\* The instance after construction with an environment, on a page that has called nothing.
MerchantInit(env) ==
  [environment |-> env,
   nCalls |-> 0,
   pc |-> [i \in Calls |-> "idle"],
   container |-> "",
   timers |-> {},
   sandboxPollCount |-> 0,
   statusReqs |-> [i \in Calls |-> 0],
   checks |-> [i \in Calls |-> 0],
   completeCount |-> [i \in Calls |-> 0],
   lastComplete |-> NoMerchantCall]

\* onComplete(result) of invocation i, called from the initiation or from a status check.
MerchantOnComplete(m, i, success, phase) ==
  [m EXCEPT !.completeCount[i] = @ + 1,
            !.lastComplete = [inv |-> i, success |-> success, phase |-> phase]]

\* _renderModal and _startPolling of invocation i: the timer it creates is named i, and
\* no status check is made before the first tick.
MerchantStartPolling(m, i) ==
  [m EXCEPT !.container = "modal", !.timers = @ \cup {i}, !.pc[i] = "polling"]

\* showPaymentModal after createPaymentRequest settled: "ok" a response with success and
\* transactionId, "noId" one lacking either, "fail" a request that failed (which
\* createPaymentRequest turns into {success: false}).
MerchantAfterCreate(m, i, outcome) ==
  IF outcome = "ok"
    THEN MerchantStartPolling(m, i)
    ELSE MerchantOnComplete([m EXCEPT !.container = "failed", !.pc[i] = "initFailed"],
                            i, FALSE, "initiation")

\* showPaymentModal(containerId, paymentData, onComplete) up to its first suspension
\* on the network: a missing container throws; a sandbox instance gets its mock create
\* response without a request and goes on to poll.
MerchantShowPaymentModal(m, hasContainer) ==
  LET n == m.nCalls + 1 IN
  IF ~hasContainer
    THEN [m EXCEPT !.nCalls = n, !.pc[n] = "threw"]
  ELSE IF m.environment = "sandbox"
    THEN MerchantAfterCreate([m EXCEPT !.nCalls = n, !.container = "initiating"], n, "ok")
  ELSE [m EXCEPT !.nCalls = n, !.container = "initiating", !.pc[n] = "create"]

\* checkStatus after a status was obtained for invocation i.
MerchantCheckStatusReceive(m, i, status) ==
  IF status \in {COMPLETED, SUCCESS}
    THEN MerchantOnComplete([m EXCEPT !.timers = @ \ {i}], i, TRUE, "poll")
  ELSE IF status \in {FAILED, EXPIRED}
    THEN MerchantOnComplete([m EXCEPT !.timers = @ \ {i}], i, FALSE, "poll")
  ELSE m

\* checkStatus run by a tick of timer i: the sandbox branch counts the checks of the
\* page and reports COMPLETED after the third; otherwise a status request is sent.
MerchantCheckStatus(m, i) ==
  IF m.environment = "sandbox"
    THEN LET m1 == [m EXCEPT !.sandboxPollCount = @ + 1, !.checks[i] = @ + 1]
         IN  IF m1.sandboxPollCount > SandboxPollLimit
               THEN MerchantOnComplete([m1 EXCEPT !.timers = @ \ {i}], i, TRUE, "poll")
               ELSE m1
    ELSE [m EXCEPT !.statusReqs[i] = @ + 1, !.checks[i] = @ + 1]

---------------------------------------------------------------------------
\* The container MMPaySDK (src/unnamed/part_002) as functions on the record containerSdk.

NoContainerCall == [inv |-> 0, success |-> FALSE]

\* The instance after construction, on a page that has called nothing.
ContainerInit ==
  [nCalls |-> 0,
   pc |-> [i \in Calls |-> "idle"],
   innerHTML |-> "",
   timers |-> {},
   statusReqs |-> [i \in Calls |-> 0],
   checks |-> [i \in Calls |-> 0],
   firstTerminal |-> [i \in Calls |-> FALSE],
   completeCount |-> [i \in Calls |-> 0],
   lastComplete |-> NoContainerCall]

\* onComplete({success, transaction}) of invocation i.
ContainerOnComplete(c, i, success) ==
  [c EXCEPT !.completeCount[i] = @ + 1,
            !.lastComplete = [inv |-> i, success |-> success]]

\* showPaymentModal(containerId, payload, onComplete) up to its await: a missing
\* container is logged and the call returns; otherwise the create request is sent.
ContainerShowPaymentModal(c, hasContainer) ==
  LET n == c.nCalls + 1 IN
  IF ~hasContainer
    THEN [c EXCEPT !.nCalls = n, !.pc[n] = "noContainer"]
    ELSE [c EXCEPT !.nCalls = n, !.innerHTML = "initiating", !.pc[n] = "create"]

\* showPaymentModal after createPaymentRequest settled: "ok" renders the modal and
\* _startPolling runs up to await checkStatus(), which sends the first status request;
\* "noqr" is a response lacking qr or transactionId; "fail" a rejected request and
\* "badAmount" a response on whose amount toFixed throws, both caught.
ContainerAfterCreate(c, i, outcome) ==
  CASE outcome = "ok"   -> [c EXCEPT !.innerHTML = "modal", !.pc[i] = "firstCheck",
                                     !.checks[i] = @ + 1]
    [] outcome = "noqr" -> [c EXCEPT !.innerHTML = "failed", !.pc[i] = "initFailed"]
    [] OTHER            -> [c EXCEPT !.innerHTML = "error", !.pc[i] = "initFailed"]

\* The terminal test of the container checkStatus.
ContainerIsTerminal(status) == status \in {SUCCESS, FAILED, EXPIRED}

\* The awaited first checkStatus of invocation i settles, with a status or (Absent
\* standing for both) with none or a failure; intervalId is still undefined, so
\* clearInterval does nothing; then _startPolling resumes and creates the timer.
ContainerFirstCheck(c, i, status) ==
  LET c1 == IF ContainerIsTerminal(status)
              THEN [ContainerOnComplete(c, i, status = SUCCESS)
                      EXCEPT !.firstTerminal[i] = TRUE]
              ELSE c
  IN  [c1 EXCEPT !.timers = @ \cup {i}, !.pc[i] = "polling"]

\* checkStatus run by a tick of timer i, up to its await.
ContainerCheckStatus(c, i) ==
  [c EXCEPT !.statusReqs[i] = @ + 1, !.checks[i] = @ + 1]

\* checkStatus of a tick after its await, for a status.
ContainerCheckStatusReceive(c, i, status) ==
  IF ContainerIsTerminal(status)
    THEN ContainerOnComplete([c EXCEPT !.timers = @ \ {i}], i, status = SUCCESS)
    ELSE c

---------------------------------------------------------------------------
\* The fields, the window and the document before the first call.
InitRun ==
  /\ pollIntervalId = Undefined
  /\ onCompleteCallback = Undefined
  /\ overlayElement = Undefined
  /\ pendingApiResponse = Undefined
  /\ pendingPaymentPayload = Undefined
  /\ tokenKey = Undefined
  /\ timers = {}
  /\ dom = {}
  /\ attachedPeak = 0
  /\ bodyOverflow = ""
  /\ hookClose = "undef"
  /\ hookReRender = FALSE
  /\ hookDownload = Undefined
  /\ nCalls = 0
  /\ pc = [i \in Calls |-> "idle"]
  /\ cbOf = [i \in Calls |-> Undefined]
  /\ payloadOf = [i \in Calls |-> Undefined]
  /\ sent = [i \in Calls |-> [token |-> 0, create |-> 0, poll |-> 0]]
  /\ pollReqs = EmptyBag
  /\ completeCount = [i \in Calls |-> 0]
  /\ lastComplete = NoCall
  /\ lastObserved = NoResponse
  /\ lastInit = NoInit
  /\ consoleError = ""
  /\ activeAtCall = [i \in Calls |-> Undefined]
  /\ cancelled = {}
  /\ wire = {}
  /\ period = [i \in Calls |-> <<>>]
  /\ built = NoBuild
  /\ api = NoApiCall
  /\ containerSdk = ContainerInit

\* The options of a page that passes none.
NoOptions == [pollInterval |-> Omitted, environment |-> Omitted, baseUrl |-> Omitted]

\* new MMPaySDK(publishableKey, opts) succeeded and nothing has been called yet.
InstanceInit(publishableKey, opts) ==
  /\ ~New("MMPaySDK", publishableKey, opts).threw
  /\ options = opts
  /\ environment = New("MMPaySDK", publishableKey, opts).environment[1]
  /\ POLL_INTERVAL_MS = New("MMPaySDK", publishableKey, opts).POLL_INTERVAL_MS[1]
  /\ InitRun

\* The same, beside an MMQRMerchantBrowserSDK instance of the production environment.
InitWith(publishableKey, opts) ==
  /\ InstanceInit(publishableKey, opts)
  /\ merchant = MerchantInit("production")

\* The instance of a page that passes no options.
Init == InitWith(<<"pk_test">>, NoOptions)

\* The page calls sdk.showPaymentModal(payload, onComplete) with a new payload and callback.
UserShowPaymentModal ==
  /\ nCalls < MaxCalls
  /\ Apply([ShowPaymentModal(State, nCalls + 1, nCalls + 1)
              EXCEPT !.activeAtCall[nCalls + 1] = pollIntervalId])

\* Status requests issued so far.
RECURSIVE SumPolls(_)
SumPolls(n) == IF n = 0 THEN 0 ELSE sent[n].poll + SumPolls(n - 1)
PollsIssued == SumPolls(MaxCalls)

\* The token request of invocation i settles.
TokenResponse ==
  \E i \in Calls, ok \in BOOLEAN :
    /\ pc[i] = "token"
    /\ Apply([AfterToken(State, i, ok)
                EXCEPT !.lastInit = [inv |-> i, outcome |-> IF ok THEN "token" ELSE "tokenFail"]])

\* The create-payment request of invocation i settles; a success sends the first
\* status request, which the model's request budget must allow.
CreateResponse ==
  \E i \in Calls, outcome \in CreateOutcomes :
    /\ pc[i] = "create"
    /\ outcome = "ok" => PollsIssued < MaxPolls
    /\ Apply([AfterCreate(State, i, outcome) EXCEPT !.lastInit = [inv |-> i, outcome |-> outcome]])

\* A live interval timer fires its checkStatus.
TimerTick ==
  \E t \in timers :
    /\ PollsIssued < MaxPolls
    /\ Apply(CheckStatusSend(State, t))

\* A status request in flight is answered with a status.
PollResponseWith(r, status) ==
  LET response == [status |-> status, inv |-> r.inv]
      s1 == [State EXCEPT !.pollReqs = @ (-) SetToBag({r})]
      s2 == CheckStatusReceive(s1, r.inv, response)
  IN  Apply([s2 EXCEPT !.lastObserved =
               IF s2.completeCount # completeCount THEN response ELSE @])

PollResponse ==
  \E r \in BagToSet(pollReqs), status \in RawStatuses : PollResponseWith(r, status)

\* A status request in flight fails (transport error, non-2xx, unparsable body):
\* checkStatus catches and logs.
PollError ==
  \E r \in BagToSet(pollReqs) :
    Apply(CheckStatusCatch([State EXCEPT !.pollReqs = @ (-) SetToBag({r})], r.inv))

\* The poll sessions a cancellation concerns: the one whose timer is live, or the
\* one the mounted confirmation view interrupted.
PolledSessions ==
  timers \cup {o.owner : o \in {n \in dom : n.view = "confirm" /\ n.owner # Undefined}}

\* The page (a button of the mounted view, or any script) invokes window.MMPayCloseModal.
CloseModalWith(forceClose) ==
  /\ hookClose # "undef"
  /\ LET s1 == MMPayCloseModal(State, forceClose)
     IN  Apply([s1 EXCEPT !.cancelled = IF forceClose /\ hookClose = "normal"
                                          THEN @ \cup PolledSessions
                                          ELSE @])

CloseModal == \E forceClose \in BOOLEAN : CloseModalWith(forceClose)

\* The page invokes window.MMPayReRenderModal.
ReRenderModal ==
  /\ hookReRender
  /\ (pendingApiResponse # Undefined /\ pendingPaymentPayload # Undefined
        /\ onCompleteCallback # Undefined) => nCalls < MaxCalls
  /\ Apply(ReRenderPendingModalInstance(State))

Next ==
  \/ UserShowPaymentModal
  \/ TokenResponse
  \/ CreateResponse
  \/ TimerTick
  \/ PollResponse
  \/ PollError
  \/ CloseModal
  \/ ReRenderModal

Spec == Init /\ [][Next]_vars

\* A status request in flight is answered with a status, on a page whose onComplete
\* callbacks throw.
PollResponseThrows ==
  \E r \in BagToSet(pollReqs), status \in RawStatuses :
    LET response == [status |-> status, inv |-> r.inv]
        s1 == [State EXCEPT !.pollReqs = @ (-) SetToBag({r})]
        s2 == CheckStatusReceiveThrows(s1, r.inv, response)
    IN  Apply([s2 EXCEPT !.lastObserved =
                 IF s2.completeCount # completeCount THEN response ELSE @])

ThrowNext ==
  \/ UserShowPaymentModal
  \/ TokenResponse
  \/ CreateResponse
  \/ TimerTick
  \/ PollResponseThrows
  \/ PollError
  \/ CloseModal
  \/ ReRenderModal

\* The run of an instance whose page passes callbacks that throw.
ThrowSpec == Init /\ [][ThrowNext]_vars

\* A poll request in flight settles, one way or the other.
PollSettles == PollResponse \/ PollError

\* The steps of a page that never invokes the close and re-render hooks.
NextUnattended ==
  \/ UserShowPaymentModal
  \/ TokenResponse
  \/ CreateResponse
  \/ TimerTick
  \/ PollSettles

\* The user leaves the modal alone; setInterval keeps firing a live timer, and fetch
\* settles every request.
LiveSpec ==
  Init /\ [][NextUnattended]_vars /\ WF_vars(TimerTick) /\ WF_vars(PollSettles)

\* The environments and the poll intervals a page may pass.
EnvironmentOptions == {Omitted, <<"sandbox">>, <<"production">>}
PollIntervalOptions == {Omitted, <<0>>, <<2000>>, <<3000>>}

\* The same page and gateway, for an instance constructed with any environment option.
EnvInit ==
  \E e \in EnvironmentOptions :
    InitWith(<<"pk_test">>, [NoOptions EXCEPT !.environment = e])
EnvSpec == EnvInit /\ [][Next]_vars

\* The same page and gateway, for an instance constructed with any pollInterval option.
IntervalInit ==
  \E ms \in PollIntervalOptions :
    InitWith(<<"pk_test">>, [NoOptions EXCEPT !.pollInterval = ms])
IntervalSpec == IntervalInit /\ [][Next]_vars

\* The arguments a page may construct an SDK with.
KeyArgs == {Omitted, <<"">>, <<"pk_test">>, <<"pk_live">>}
OptionValues ==
  [pollInterval : PollIntervalOptions, environment : EnvironmentOptions,
   baseUrl : {Omitted, <<"https://gw.example">>}]

\* The page evaluates new <class>(publishableKey, options).
Construct ==
  /\ \E v \in Variants, k \in KeyArgs, o \in OptionValues :
       built' = [variant |-> v, publishableKey |-> k, options |-> o, result |-> New(v, k, o)]
  /\ UNCHANGED <<instanceVars, api, merchant, containerSdk>>

\* Construction alone, of any of the three classes with any arguments.
CtorSpec == Init /\ [][Construct]_vars

\* The page calls sdk.createPaymentRequest(payload) and the gateway answers.
UserCreatePaymentRequest ==
  /\ \E answer \in HttpAnswers :
       api' = [called |-> TRUE, answer |-> answer,
               endpoint |-> CreatePaymentRequest(environment, answer).endpoint,
               promise |-> CreatePaymentRequest(environment, answer).promise]
  /\ UNCHANGED <<instanceVars, built, merchant, containerSdk>>

\* Direct createPaymentRequest calls on an instance of either environment.
ApiSpec == EnvInit /\ [][UserCreatePaymentRequest]_vars

\* The merchant page: each action starts with no onComplete invocation recorded.
MerchantState == [merchant EXCEPT !.lastComplete = NoMerchantCall]

MerchantApply(m) ==
  /\ merchant' = m
  /\ UNCHANGED <<instanceVars, built, api, containerSdk>>

\* The page calls showPaymentModal, with the id of an element that exists or not.
MerchantUserShowPaymentModal ==
  \E hasContainer \in BOOLEAN :
    /\ merchant.nCalls < MaxCalls
    /\ MerchantApply(MerchantShowPaymentModal(MerchantState, hasContainer))

\* The create request of invocation i settles.
MerchantCreateResponse ==
  \E i \in Calls, outcome \in {"ok", "noId", "fail"} :
    /\ merchant.pc[i] = "create"
    /\ MerchantApply(MerchantAfterCreate(MerchantState, i, outcome))

RECURSIVE MerchantSumChecks(_)
MerchantSumChecks(n) == IF n = 0 THEN 0 ELSE merchant.checks[n] + MerchantSumChecks(n - 1)

\* A live interval timer fires its checkStatus.
MerchantTimerTick ==
  \E i \in merchant.timers :
    /\ merchant.environment # "sandbox" => MerchantSumChecks(MaxCalls) < MaxPolls
    /\ MerchantApply(MerchantCheckStatus(MerchantState, i))

\* A status request in flight is answered with a status; toUpperCase on a response
\* without status throws, which checkStatus catches.
MerchantPollResponse ==
  \E i \in Calls, status \in RawStatuses :
    /\ merchant.statusReqs[i] > 0
    /\ LET m1 == [MerchantState EXCEPT !.statusReqs[i] = @ - 1]
       IN  MerchantApply(IF status = Absent THEN m1
                         ELSE MerchantCheckStatusReceive(m1, i, ToUpperCase(status)))

\* A status request in flight fails: checkStatus catches and logs.
MerchantPollError ==
  \E i \in Calls :
    /\ merchant.statusReqs[i] > 0
    /\ MerchantApply([MerchantState EXCEPT !.statusReqs[i] = @ - 1])

MerchantNext ==
  \/ MerchantUserShowPaymentModal
  \/ MerchantCreateResponse
  \/ MerchantTimerTick
  \/ MerchantPollResponse
  \/ MerchantPollError

\* An MMQRMerchantBrowserSDK instance of either environment and its page.
MerchantSpecInit ==
  /\ InstanceInit(<<"pk_test">>, NoOptions)
  /\ \E env \in {"sandbox", "production"} : merchant = MerchantInit(env)
MerchantSpec == MerchantSpecInit /\ [][MerchantNext]_vars

\* The container page: each action starts with no onComplete invocation recorded.
ContainerState == [containerSdk EXCEPT !.lastComplete = NoContainerCall]

ContainerApply(c) ==
  /\ containerSdk' = c
  /\ UNCHANGED <<instanceVars, built, api, merchant>>

\* The page calls showPaymentModal, with the id of an element that exists or not.
ContainerUserShowPaymentModal ==
  \E hasContainer \in BOOLEAN :
    /\ containerSdk.nCalls < MaxCalls
    /\ ContainerApply(ContainerShowPaymentModal(ContainerState, hasContainer))

RECURSIVE ContainerSumChecks(_)
ContainerSumChecks(n) ==
  IF n = 0 THEN 0 ELSE containerSdk.checks[n] + ContainerSumChecks(n - 1)

\* The create request of invocation i settles; a success sends the first status
\* request, which the model's request budget must allow.
ContainerCreateResponse ==
  \E i \in Calls, outcome \in CreateOutcomes :
    /\ containerSdk.pc[i] = "create"
    /\ outcome = "ok" => ContainerSumChecks(MaxCalls) < MaxPolls
    /\ ContainerApply(ContainerAfterCreate(ContainerState, i, outcome))

\* The first status request of invocation i settles.
ContainerFirstCheckSettles ==
  \E i \in Calls, status \in RawStatuses :
    /\ containerSdk.pc[i] = "firstCheck"
    /\ ContainerApply(ContainerFirstCheck(ContainerState, i, ToUpperCase(status)))

\* A live interval timer fires its checkStatus.
ContainerTimerTick ==
  \E i \in containerSdk.timers :
    /\ ContainerSumChecks(MaxCalls) < MaxPolls
    /\ ContainerApply(ContainerCheckStatus(ContainerState, i))

\* A status request sent by a tick is answered with a status.
ContainerPollResponse ==
  \E i \in Calls, status \in RawStatuses :
    /\ containerSdk.statusReqs[i] > 0
    /\ ContainerApply(ContainerCheckStatusReceive(
                        [ContainerState EXCEPT !.statusReqs[i] = @ - 1],
                        i, ToUpperCase(status)))

\* A status request sent by a tick fails: checkStatus catches and logs.
ContainerPollError ==
  \E i \in Calls :
    /\ containerSdk.statusReqs[i] > 0
    /\ ContainerApply([ContainerState EXCEPT !.statusReqs[i] = @ - 1])

ContainerNext ==
  \/ ContainerUserShowPaymentModal
  \/ ContainerCreateResponse
  \/ ContainerFirstCheckSettles
  \/ ContainerTimerTick
  \/ ContainerPollResponse
  \/ ContainerPollError

\* A container MMPaySDK instance and its page.
ContainerSpec == Init /\ [][ContainerNext]_vars

---------------------------------------------------------------------------
\* Helpers of the properties.

\* Two characters are the same letter, whatever their case.
SameLetter(x, y) ==
  \/ x = y
  \/ <<x, y>> \in { <<"s","S">>, <<"u","U">>, <<"c","C">>, <<"e","E">>, <<"f","F">>,
                    <<"a","A">>, <<"i","I">>, <<"l","L">>, <<"d","D">>, <<"x","X">>,
                    <<"p","P">>, <<"r","R">>, <<"n","N">>, <<"g","G">> }
  \/ <<y, x>> \in { <<"s","S">>, <<"u","U">>, <<"c","C">>, <<"e","E">>, <<"f","F">>,
                    <<"a","A">>, <<"i","I">>, <<"l","L">>, <<"d","D">>, <<"x","X">>,
                    <<"p","P">>, <<"r","R">>, <<"n","N">>, <<"g","G">> }

\* Case-insensitive comparison of two status strings.
EqIgnoreCase(a, b) ==
  /\ Len(a) = Len(b)
  /\ \A k \in 1..Len(a) : SameLetter(a[k], b[k])

\* The view of the overlay the instance holds, "none" when it holds none.
MountedViews == {o.view : o \in {n \in dom : n.id = overlayElement}}
Mounted(view) == view \in MountedViews

---------------------------------------------------------------------------
\* C1: for one showPaymentModal call, onComplete is invoked at most once,
\* whatever the interleaving of timer ticks and poll responses.
C1_OnCompleteAtMostOnce == \A i \in Calls : completeCount[i] <= 1

\* C2: onComplete is never invoked for a response whose status is PENDING or
\* absent; its success flag is true exactly when the observed status is SUCCESS
\* (in any case) and false when it is FAILED or EXPIRED; and the transaction it
\* receives is the response that carried that status.
C2_CallbackMatchesStatus ==
  lastComplete.inv # 0 =>
    /\ \/ EqIgnoreCase(lastObserved.status, SUCCESS)
       \/ EqIgnoreCase(lastObserved.status, FAILED)
       \/ EqIgnoreCase(lastObserved.status, EXPIRED)
    /\ lastComplete.success <=> EqIgnoreCase(lastObserved.status, SUCCESS)
    /\ lastComplete.transaction = lastObserved
    /\ lastComplete.inv = lastObserved.inv

\* A lower-case success has been reported and passed to onComplete with success true.
C2_Witness ==
  /\ lastComplete.inv # 0
  /\ lastObserved.status = <<"s","u","c","c","e","s","s">>
  /\ lastComplete.success

\* C3: if initiation succeeds, the user leaves the modal alone and the gateway stops
\* answering PENDING (or failing) before the model's request budget is used up, then
\* eventually onComplete is invoked, the poll timer is stopped and the terminal view
\* is mounted.  Checked for a page that makes one showPaymentModal call.
AllAnswersNonTerminal ==
  /\ PollsIssued >= MaxPolls
  /\ pollReqs = EmptyBag
  /\ completeCount[1] = 0
C3_Completed ==
  /\ completeCount[1] > 0
  /\ timers = {}
  /\ pollIntervalId = Undefined
  /\ Mounted("terminal")
C3_EventuallyCompletes ==
  (pc[1] = "started") ~> (C3_Completed \/ nCalls > 1 \/ AllAnswersNonTerminal)

\* The session polled to the end of the request budget and then completed.
C3_Witness ==
  /\ nCalls = 1
  /\ C3_Completed
  /\ sent[1].poll = MaxPolls

\* C4: once the user has cancelled a payment attempt, onComplete is never invoked
\* for it and no terminal view is mounted for it.
C4_NoCallbackAfterCancel ==
  [][\A i \in cancelled :
       /\ completeCount'[i] = completeCount[i]
       /\ \A o \in dom' : (o.view = "terminal" /\ o.owner = i) => o \in dom]_vars

\* C5: when showPaymentModal is called again while poll session A is active, A's
\* callback is never invoked after B's polling has started.
C5_NoStaleCallback ==
  [][\A a, b \in Calls :
       (activeAtCall[b] = a /\ pc[b] = "started") => completeCount'[a] = completeCount[a]]_vars

\* C6: at most one repeating poll timer is live, and it is the one recorded in
\* pollIntervalId.
C6_OneTimer == \A t \in timers : t = pollIntervalId

\* A second poll session runs and the first session's timer is gone.
C6_Witness ==
  /\ pc[1] = "started"
  /\ pc[2] = "started"
  /\ timers = {2}
  /\ pollIntervalId = 2

\* C7 as stated: a non-forced close on the QR view mounts the cancel-confirmation
\* view and leaves the poll timer running.
C7_CloseKeepsTimer ==
  [][(CloseModalWith(FALSE) /\ Mounted("qr")) =>
       (Mounted("confirm")' /\ timers' = timers /\ pollIntervalId' = pollIntervalId)]_vars

\* C7 amended: a non-forced close on the QR view mounts the cancel-confirmation view
\* and stops the poll timer at once, before the user confirms; no status request is
\* issued by that step.
C7_CloseStopsTimer ==
  [][(CloseModalWith(FALSE) /\ Mounted("qr")) =>
       /\ Mounted("confirm")'
       /\ timers' = {}
       /\ pollIntervalId' = Undefined
       /\ pollReqs' = pollReqs
       /\ hookClose' = "normal"]_vars

\* The confirmation view is mounted over a poll session whose timer has been stopped.
C7_Witness ==
  /\ \E o \in dom : o.view = "confirm" /\ o.owner # Undefined /\ o.id = overlayElement
  /\ timers = {}

\* C8: a forced close on any view, or any close on a terminal view, in one step stops
\* the poll timer, removes the overlay and restores page scrolling.
C8_ForcedCloseTearsDown ==
  [][\A forceClose \in BOOLEAN :
       (CloseModalWith(forceClose) /\ (forceClose \/ hookClose = "terminal")) =>
         /\ timers' = {}
         /\ pollIntervalId' = Undefined
         /\ dom' = {}
         /\ overlayElement' = Undefined
         /\ bodyOverflow' = ""]_vars

\* A poll session was force-closed: nothing is mounted, no timer, scrolling restored.
C8_Witness ==
  /\ cancelled = {1}
  /\ sent[1].poll = 1
  /\ dom = {}
  /\ timers = {}
  /\ bodyOverflow = ""
  /\ hookClose = "undef"

\* The re-render hook is invoked on the confirmation view that interrupted session i.
ResumeOf(i) ==
  /\ ReRenderModal
  /\ \E o \in dom : o.view = "confirm" /\ o.owner = i /\ o.id = overlayElement

InitFailures == {"tokenFail", "fail", "noqr"}

\* C10: when initiation fails (token request fails, create request fails, or the
\* create response lacks qr or transactionRefId), the terminal FAILED view is mounted,
\* no poll timer is started, no status request is ever issued for that attempt, and
\* neither the token request nor the create request is sent a second time.
C10_InitFailureEndsFlow ==
  [][/\ lastInit'.outcome \in InitFailures =>
          LET i == lastInit'.inv IN
            /\ pc'[i] = "initFailed"
            /\ \E o \in dom' : /\ o.id = overlayElement'
                               /\ o.view = "terminal"
                               /\ o.status = FAILED
                               /\ o.owner = i
            /\ hookClose' = "terminal"
            /\ timers' = {}
            /\ sent'[i].poll = 0
            /\ sent'[i].token = 1
            /\ sent'[i].create <= 1
     /\ \A i \in Calls : pc[i] = "initFailed" =>
          /\ pc'[i] = "initFailed"
          /\ sent'[i] = sent[i]
          /\ i \notin timers']_vars

\* A create response without qr ended the attempt after one token and one create request.
C10_Witness ==
  /\ lastInit = [inv |-> 1, outcome |-> "noqr"]
  /\ pc[1] = "initFailed"
  /\ sent[1] = [token |-> 1, create |-> 1, poll |-> 0]
  /\ Mounted("terminal")

\* C18: the period of the poll timer equals options.pollInterval for every value the
\* caller supplies, and 3000 ms when the option is omitted.
C18_PeriodIsOption ==
  \A i \in Calls :
    period[i] # <<>> =>
      period[i] = IF options.pollInterval = Omitted THEN <<3000>> ELSE options.pollInterval

SandboxEndpoints ==
  {[op |-> "token",  endpoint |-> "/xpayments/sandbox-token-request"],
   [op |-> "create", endpoint |-> "/xpayments/sandbox-payment-create"],
   [op |-> "poll",   endpoint |-> "/xpayments/sandbox-payment-polling"]}
ProductionEndpoints ==
  {[op |-> "token",  endpoint |-> "/xpayments/production-token-request"],
   [op |-> "create", endpoint |-> "/xpayments/production-payment-create"],
   [op |-> "poll",   endpoint |-> "/xpayments/production-payment-polling"]}
WireOps == {w.op : w \in wire}

\* C19: an instance constructed with environment 'sandbox' sends every token, create
\* and status request to the sandbox endpoint of its operation; an instance constructed
\* with 'production' or without the option sends every request to the production
\* endpoint; no instance sends to both families.
C19_EndpointsFollowEnvironment ==
  /\ IF options.environment = <<"sandbox">>
       THEN wire \subseteq SandboxEndpoints
       ELSE wire \subseteq ProductionEndpoints
  /\ \A i \in Calls :
       /\ sent[i].token > 0 => "token" \in WireOps
       /\ sent[i].create > 0 => "create" \in WireOps
       /\ sent[i].poll > 0 => "poll" \in WireOps

\* A sandbox instance has sent a request of each operation, timer ticks included.
C19_Witness ==
  /\ options.environment = <<"sandbox">>
  /\ wire = SandboxEndpoints
  /\ \E i \in Calls : sent[i].poll = 2

\* C11: createPaymentRequest on a non-2xx response rejects with an error that carries
\* the HTTP status code and the response body text; on a 2xx response it returns the
\* parsed body; it never returns a value for a non-2xx response.
C11_NonSuccessRejects ==
  (api.called /\ api.answer.transport = "ok") =>
    LET is2xx == api.answer.status \in 200..299 IN
      /\ ~is2xx =>
           /\ api.promise.settled = "rejected"
           /\ api.promise.value = <<>>
           /\ api.promise.error.status = api.answer.status
           /\ api.promise.error.details = api.answer.body.text
      /\ (is2xx /\ api.answer.body.json # <<>>) =>
           /\ api.promise.settled = "fulfilled"
           /\ api.promise.value = api.answer.body.json
      /\ api.promise.settled = "fulfilled" => is2xx

\* The gateway answered 500 with the body {error:down} and the promise rejected.
C11_Witness ==
  /\ api.called
  /\ api.answer.status = 500
  /\ api.answer.body.text = "{error:down}"
  /\ api.promise.settled = "rejected"

\* C12: constructing any SDK class with an empty or absent publishable key throws
\* before the constructor assigns any field, so no instance exists.
C12_EmptyKeyThrows ==
  (built.variant # "" /\ (built.publishableKey = <<>> \/ built.publishableKey = <<"">>)) =>
    /\ built.result.threw
    /\ built.result.publishableKey = <<>>
    /\ built.result.environment = <<>>
    /\ built.result.baseUrl = <<>>
    /\ built.result.POLL_INTERVAL_MS = <<>>

\* The merchant class was constructed with an empty key, with options, and threw.
C12_Witness ==
  /\ built.variant = "MMQRMerchantBrowserSDK"
  /\ built.publishableKey = <<"">>
  /\ built.options.environment = <<"sandbox">>
  /\ built.result.threw

\* C13: in MMQRMerchantBrowserSDK, onComplete is invoked only after a status poll of
\* that invocation has observed the payment as completed, failed or expired, never
\* before polling has started.
C13_CallbackOnlyAfterPoll ==
  merchant.lastComplete.inv # 0 =>
    /\ merchant.lastComplete.phase = "poll"
    /\ merchant.checks[merchant.lastComplete.inv] > 0

\* C14: a status request that fails changes no state: the poll timer stays live, the
\* mounted view, the hooks and the fields are unchanged, onComplete is not invoked, no
\* request is sent by that step; and a tick of a live timer, after any number of
\* failures, issues a new status request.
C14_PollErrorChangesNothing ==
  [][/\ consoleError' = "Polling error:" =>
          /\ timers' = timers
          /\ pollIntervalId' = pollIntervalId
          /\ dom' = dom
          /\ overlayElement' = overlayElement
          /\ bodyOverflow' = bodyOverflow
          /\ hookClose' = hookClose
          /\ hookReRender' = hookReRender
          /\ tokenKey' = tokenKey
          /\ completeCount' = completeCount
          /\ lastComplete' = NoCall
          /\ sent' = sent
          /\ pc' = pc
     /\ \A i \in Calls :
          (TimerTick /\ timers = {i}) =>
             /\ sent'[i].poll = sent[i].poll + 1
             /\ BagCardinality(pollReqs') = BagCardinality(pollReqs) + 1]_vars

\* A status request failed while the QR view was shown; the timer is live, the QR view
\* is still mounted and nothing was reported to onComplete.
C14_Witness ==
  /\ consoleError = "Polling error:"
  /\ sent[1].poll = MaxPolls
  /\ pollReqs = EmptyBag
  /\ timers = {1}
  /\ Mounted("qr")
  /\ completeCount[1] = 0

\* C15: a poll response whose status is SUCCESS or COMPLETED ends the poll session as
\* confirmed: the timer is stopped and onComplete is invoked with success true.
C15_SuccessOrCompletedConfirms ==
  [][\A i \in Calls, status \in {SUCCESS, COMPLETED} :
       (InFlight(State, i) /\ PollResponseWith([inv |-> i], status)) =>
          /\ timers' = {}
          /\ lastComplete'.inv = i
          /\ lastComplete'.success]_vars

\* C16: at any time at most one overlay node created by the instance is attached to
\* the document, also in the middle of mounting a new view (the previous overlay is
\* removed before the new one is attached), and the attached node is the one the
\* instance references.
C16_OneOverlay ==
  /\ Cardinality(dom) <= 1
  /\ attachedPeak <= 1
  /\ \A o \in dom : o.id = overlayElement

\* A terminal view has replaced the views mounted before it.
C16_Witness ==
  /\ Mounted("terminal")
  /\ pc[1] = "started"
  /\ completeCount[1] = 1
  /\ Cardinality(dom) = 1
  /\ attachedPeak = 1

\* The fields, window globals and document state teardown acts on.
TornDown(s) ==
  <<s.pollIntervalId, s.timers, s.overlayElement, s.dom, s.bodyOverflow,
    s.hookClose, s.hookReRender>>

\* C17: teardown is idempotent: from any reachable state, a second _cleanupModal
\* directly after a first one (with the same argument, or with false after true as in
\* _showTerminalMessage) leaves the timer handle, the overlay reference, the page-scroll
\* state and the global hooks exactly as the first run left them.
C17_CleanupIdempotent ==
  \A r1, r2 \in BOOLEAN :
    (r2 => r1) =>
      TornDown(CleanupModal(CleanupModal(State, r1), r2)) = TornDown(CleanupModal(State, r1))

\* A state in which teardown has work to do on every item: a live timer, an attached
\* overlay, suspended page scrolling and installed hooks.
C17_Witness ==
  /\ timers # {}
  /\ pollIntervalId # Undefined
  /\ dom # {}
  /\ bodyOverflow = "hidden"
  /\ hookClose = "normal"
  /\ hookReRender
  /\ TornDown(CleanupModal(State, TRUE)) # TornDown(State)

\* C20: when a poll response with a terminal status is processed, the poll timer is
\* stopped and the terminal view is mounted before onComplete is invoked, and from then
\* on no timer of that attempt is live and no further status request is issued for it.
C20_StoppedBeforeCallback ==
  [][/\ lastComplete'.inv # 0 =>
          /\ ~lastComplete'.timerLive
          /\ lastComplete'.terminalShown
          /\ timers' = {}
          /\ pollIntervalId' = Undefined
     /\ \A i \in Calls :
          completeCount[i] > 0 =>
             /\ i \notin timers'
             /\ sent'[i].poll = sent[i].poll]_vars

\* A session completed after its timer had ticked and another handler has run since.
C20_Witness ==
  /\ completeCount[1] = 1
  /\ sent[1].poll = 2
  /\ lastComplete = NoCall
  /\ timers = {}

\* C21: in the container MMPaySDK, when the immediate first status check already
\* observes a terminal status, onComplete is invoked exactly once and no repeating
\* timer runs afterwards.
C21_TerminalFirstCheckLeavesNoTimer ==
  \A i \in Calls :
    containerSdk.firstTerminal[i] =>
      /\ i \notin containerSdk.timers
      /\ containerSdk.completeCount[i] = 1

\* C22: in the container variants, a second showPaymentModal on the same instance while
\* the first poll session is active cancels the first session's timer: two poll timers
\* of one instance are never live together.
C22_SecondCallCancelsFirst ==
  /\ Cardinality(merchant.timers) <= 1
  /\ Cardinality(containerSdk.timers) <= 1

\* C23: in every SDK variant a poll session that has started has issued its first
\* status check at once, before any tick of its timer.
C23_FirstCheckImmediate ==
  \A i \in Calls :
    /\ pc[i] = "started" => sent[i].poll >= 1
    /\ containerSdk.pc[i] \in {"firstCheck", "polling"} => containerSdk.checks[i] >= 1
    /\ merchant.pc[i] = "polling" => merchant.checks[i] >= 1

\* Something is retained for a re-render: create response, payload and callback.
Retained ==
  /\ pendingApiResponse # Undefined
  /\ pendingPaymentPayload # Undefined
  /\ onCompleteCallback # Undefined

\* C24: the re-render entry point, when a create response and payload are retained,
\* mounts the QR view of the cached response and sends no new token or create request
\* (no new attempt begins); when nothing is retained it force-closes: overlay removed,
\* timer stopped, scroll restored.
C24_ReRenderUsesCachedResponse ==
  [][ReRenderModal =>
       IF Retained
         THEN /\ sent' = sent
              /\ nCalls' = nCalls
              /\ \E o \in dom' : /\ o.id = overlayElement'
                                 /\ o.view = "qr"
                                 /\ o.owner = pendingApiResponse
         ELSE /\ overlayElement' = Undefined
              /\ pollIntervalId' = Undefined
              /\ bodyOverflow' = ""]_vars

\* C25: whenever the terminal view is mounted (after a terminal poll status or an
\* initiation failure), the close hook is defined and a close action, forced or not,
\* tears the modal down directly and mounts no cancel-confirmation view.
C25_TerminalCloseTearsDown ==
  Mounted("terminal") =>
    /\ hookClose # "undef"
    /\ \A forceClose \in BOOLEAN :
         LET s == MMPayCloseModal(State, forceClose) IN
           /\ s.overlayElement = Undefined
           /\ s.dom = {}
           /\ s.hookClose = "undef"
           /\ s.bodyOverflow = ""

\* The terminal view of the only attempt, shown after its poll ended, has been closed.
C25_Witness ==
  /\ nCalls = 1
  /\ completeCount[1] = 1
  /\ overlayElement = Undefined
  /\ dom = {}
  /\ hookClose = "undef"

\* The view state of the modal.
CurrentView == IF MountedViews = {} THEN "closed" ELSE CHOOSE v \in MountedViews : TRUE

ViewTransitions ==
  {<<"closed", "progress">>, <<"progress", "qr">>, <<"progress", "terminal">>,
   <<"qr", "confirm">>, <<"qr", "terminal">>, <<"confirm", "qr">>, <<"confirm", "closed">>}

\* C26: every change of the mounted view follows one of the transitions closed ->
\* progress, progress -> qr, progress -> terminal, qr -> confirm, qr -> terminal,
\* confirm -> qr, confirm -> closed, or a teardown to closed; no other transition occurs.
C26_OnlyListedTransitions ==
  [][CurrentView' # CurrentView =>
       \/ <<CurrentView, CurrentView'>> \in ViewTransitions
       \/ CurrentView' = "closed"]_vars

\* C27: the window hooks MMPayCloseModal, MMPayReRenderModal and MMPayDownloadQR are torn
\* down with the view that installed them: with no overlay mounted none is defined, and
\* a download hook that is defined belongs to a mounted QR view.
C27_HooksTornDownWithView ==
  /\ overlayElement = Undefined =>
       (hookClose = "undef" /\ ~hookReRender /\ hookDownload = Undefined)
  /\ hookDownload # Undefined =>
       \E o \in dom : /\ o.id = overlayElement
                       /\ o.view = "qr"
                       /\ payloadOf[o.owner] = hookDownload

\* C28: the create request of an attempt is issued by the step that receives the
\* attempt's token and carries that token; every status request of the attempt carries
\* the token of the attempt; and a failed token request issues no create request.
C28_RequestsCarryOwnToken ==
  [][\A i \in Calls :
       /\ sent'[i].create > sent[i].create =>
            /\ pc[i] = "token"
            /\ lastInit' = [inv |-> i, outcome |-> "token"]
            /\ AuthorizationHeader([tokenKey |-> tokenKey']) = <<i>>
       /\ sent'[i].poll > sent[i].poll => AuthorizationHeader(State) = <<i>>
       /\ lastInit' = [inv |-> i, outcome |-> "tokenFail"] => sent'[i].create = 0]_vars

\* C29: after a terminal status has been observed for the latest attempt, or the user
\* has closed the modal, the retained create response, payload and callback are
\* cleared, and the re-render entry point begins no new attempt.
C29_SessionStateDiscarded ==
  ((nCalls > 0 /\ completeCount[nCalls] > 0) \/ (nCalls > 0 /\ overlayElement = Undefined
                                                   /\ pc[nCalls] = "started")) =>
    /\ pendingApiResponse = Undefined
    /\ pendingPaymentPayload = Undefined
    /\ onCompleteCallback = Undefined
    /\ ReRenderPendingModalInstance(State).nCalls = nCalls

\* C30: when the modal has been closed while the token or create request of an attempt
\* is in flight, the response that arrives afterwards mounts no overlay and starts no
\* poll timer for that attempt.
C30_LateInitResponseDiscarded ==
  [][\A i \in Calls :
       (pc[i] \in {"token", "create"} /\ overlayElement = Undefined /\ lastInit'.inv = i) =>
         /\ overlayElement' = Undefined
         /\ i \notin timers'
         /\ sent'[i].poll = 0]_vars

\* C31: a terminal response that belongs to an earlier poll session never stops the
\* timer of a later session: in a step in which onComplete is invoked for one session,
\* the live timer of another session stays live.
C31_StaleTerminalKeepsLaterTimer ==
  [][\A b \in timers :
       (lastComplete'.inv # Undefined /\ lastComplete'.inv # b) => b \in timers']_vars

\* C32: between handlers a live poll timer implies that the mounted overlay is the QR
\* view of the session the timer polls for.
C32_TimerOnlyWithQrView ==
  \A t \in timers :
    \E o \in dom : o.id = overlayElement /\ o.view = "qr" /\ o.owner = t

\* The QR view is mounted and its timer has ticked once after the immediate check.
C32_Witness ==
  /\ timers = {1}
  /\ sent[1].poll = 2
  /\ Mounted("qr")

\* C33: when showPaymentModal issues its token request after every earlier attempt has
\* ended (no initiation in flight, no poll timer live), the stored token is unset and
\* the request carries no token of an earlier attempt.
C33_TokenRequestCarriesNoOldToken ==
  [][\A i \in Calls :
       (/\ sent'[i].token > sent[i].token
        /\ timers = {}
        /\ \A j \in Calls : pc[j] \notin {"token", "create"})
       => AuthorizationHeader(State) = <<>>]_vars

\* C35: between handlers page scrolling is suspended exactly when an overlay is mounted.
C35_ScrollSuspendedIffOverlay ==
  (bodyOverflow = "hidden") <=> (overlayElement # Undefined /\ Attached(State, overlayElement))

\* The overlay of the only attempt has been mounted and closed again, scrolling restored.
C35_Witness ==
  /\ nCalls = 1
  /\ pc[1] = "started"
  /\ overlayElement = Undefined
  /\ dom = {}
  /\ bodyOverflow = ""

\* C36: in sandbox mode of MMQRMerchantBrowserSDK every attempt observes PENDING on its
\* first three ticks and completes successfully on its fourth, whatever other attempts
\* were made on the page.
C36_SandboxFourthTickCompletes ==
  merchant.environment = "sandbox" =>
    \A i \in Calls :
      /\ merchant.checks[i] <= SandboxPollLimit => merchant.completeCount[i] = 0
      /\ merchant.checks[i] > SandboxPollLimit =>
           (merchant.checks[i] = SandboxPollLimit + 1 /\ merchant.completeCount[i] = 1)

\* C34: when onComplete throws, the exception does not escape the poll tick (the catch
\* block logs it), the poll timer stays stopped, the terminal view of the attempt stays
\* mounted, and onComplete is not invoked again for that attempt.
C34_ThrowingCallbackContained ==
  [][lastComplete'.inv # Undefined =>
       /\ consoleError' = "Polling error:"
       /\ timers' = {}
       /\ pollIntervalId' = Undefined
       /\ \E o \in dom' : /\ o.id = overlayElement'
                          /\ o.view = "terminal"
                          /\ o.owner = lastComplete'.inv
       /\ completeCount'[lastComplete'.inv] = 1]_vars

TypeOK ==
  /\ pollIntervalId \in 0..MaxCalls
  /\ timers \subseteq Calls
  /\ nCalls \in 0..MaxCalls
  /\ hookClose \in {"undef", "normal", "terminal"}
  /\ bodyOverflow \in {"", "hidden"}
====
